---- MODULE Spec2Model ----
(***************************************************************************)
(* OpaqueDEX: the fixed-rate confidential swap contract OpaqueSwap, the    *)
(* two confidential ledgers (wETH, wUSDT) it moves value between, and the  *)
(* 64-bit arithmetic it applies to encrypted amounts.                      *)
(*                                                                         *)
(* An encrypted amount is modelled by the unsigned 64-bit value it         *)
(* encrypts.  A 64-bit value is kept as four 16-bit limbs, least           *)
(* significant first, so that multiplication and division by the rate are  *)
(* computed with their exact 64-bit width.                                 *)
(*                                                                         *)
(* The client DexApp is modelled for one connected account: its React      *)
(* state and its asynchronous handlers decryptBalance, executeSwap and     *)
(* refreshOnChainData, one step per stretch of code between two awaits,    *)
(* and setOperatorForToken and buildSwapPreview as single steps.           *)
(***************************************************************************)
EXTENDS Integers, Sequences, FiniteSets, TLC

VARIABLES
    engine,      \* the OpaqueSwap instance: deployed flag and its two immutables
    bal,         \* bal[token][account]: balance of each ledger
    operators,   \* operators[token][owner][delegate]: expiry of the grant (0: none)
    supply,      \* supply[token]: amount minted so far
    now,         \* block timestamp
    shortfall,   \* what a ledger moves when asked for more than the sender holds
    calls,       \* number of transactions sent so far
    last,        \* outcome of the last transaction
    ax,          \* rate arithmetic: the 64-bit input
    aout,        \* rate arithmetic: forward(ax), reverse(ax), reverse(forward(ax))
    aphase,      \* rate arithmetic: "input" or "done"
    balanceHandle,      \* client: serial of the handle of the connected account's
                        \* balance on each ledger (0: the zero handle)
    encryptedBalances,  \* client state: the handle last read for each token
    decryptedBalances,  \* client state: the cleartext shown for each token
    isDecrypting,       \* client state: the token shown as busy, or Null
    statusMessage,      \* client state: the message shown to the user
    decryptCalls,       \* client: the invocations of decryptBalance
    swapCall,           \* client: the invocation of executeSwap
    keypairs,           \* client: number of keypairs generated so far
    failure             \* client: what statusMessage reports: a failure in the
                        \* client ("client"), a rejection on chain ("onchain"),
                        \* or neither (Null)

vars == <<engine, bal, operators, supply, now, shortfall, calls, last, ax, aout, aphase,
          balanceHandle, encryptedBalances, decryptedBalances, isDecrypting,
          statusMessage, failure, decryptCalls, swapCall, keypairs>>

ledgerVars == <<engine, bal, operators, supply, now, shortfall, calls, last>>
arithVars == <<ax, aout, aphase>>
clientVars == <<balanceHandle, encryptedBalances, decryptedBalances, isDecrypting,
                statusMessage, failure, decryptCalls, swapCall, keypairs>>

----------------------------------------------------------------------------
(* Bounds of the model *)

MaxTime == 1        \* block timestamps run from 0 to MaxTime
MaxCalls == 3       \* transactions per behaviour
MaxProbe == 6300    \* the rate arithmetic is applied to every value 0..MaxProbe
MaxDecrypts == 2    \* invocations of decryptBalance per behaviour
MaxSwaps == 1       \* invocations of executeSwap per behaviour

----------------------------------------------------------------------------
(* Unsigned 64-bit values *)

Base == 65536
\* the 64-bit value of a natural number below 2^31
U64(n) == <<n % Base, n \div Base, 0, 0>>

IsSmall(a) == a[3] = 0 /\ a[4] = 0 /\ a[2] < 32768

\* the natural number of a 64-bit value below 2^31
ToNat(a) == a[1] + a[2] * Base

U64Zero == <<0, 0, 0, 0>>
U64Max == <<65535, 65535, 65535, 65535>>

\* a <= b, compared from the most significant limb down
U64Le(a, b) ==
    IF a[4] # b[4] THEN a[4] < b[4]
    ELSE IF a[3] # b[3] THEN a[3] < b[3]
    ELSE IF a[2] # b[2] THEN a[2] < b[2]
    ELSE a[1] <= b[1]

\* a * k carried out limb by limb, with the carry out of the top limb
MulCarry(a, k) ==
    LET p1 == a[1] * k
        p2 == a[2] * k + (p1 \div Base)
        p3 == a[3] * k + (p2 \div Base)
        p4 == a[4] * k + (p3 \div Base)
    IN  [low |-> <<p1 % Base, p2 % Base, p3 % Base, p4 % Base>>,
         carry |-> p4 \div Base]

\* a + n for a natural n below 2^16, with the carry out of the top limb
AddCarry(a, n) ==
    LET s1 == a[1] + n
        s2 == a[2] + (s1 \div Base)
        s3 == a[3] + (s2 \div Base)
        s4 == a[4] + (s3 \div Base)
    IN  [low |-> <<s1 % Base, s2 % Base, s3 % Base, s4 % Base>>,
         carry |-> s4 \div Base]

\* schoolbook division of a by k (0 < k < 2^15): quotient and remainder
DivRem(a, k) ==
    LET c4 == a[4]
        c3 == (c4 % k) * Base + a[3]
        c2 == (c3 % k) * Base + a[2]
        c1 == (c2 % k) * Base + a[1]
    IN  [quot |-> <<c1 \div k, c2 \div k, c3 \div k, c4 \div k>>,
         rem |-> c1 % k]

----------------------------------------------------------------------------
(* OpaqueSwap: rate arithmetic on euint64 *)

WETH_TO_WUSDT_RATE == 3100

\* FHE.mul(amountIn, WETH_TO_WUSDT_RATE): euint64 product, modulo 2^64
forward(amountIn) == MulCarry(amountIn, WETH_TO_WUSDT_RATE).low

\* variant: the quotient rounded up instead of truncated
reverse_ceil(amountIn) ==
    DivRem(AddCarry(amountIn, WETH_TO_WUSDT_RATE - 1).low, WETH_TO_WUSDT_RATE).quot

\* FHE.div(amountIn, WETH_TO_WUSDT_RATE): euint64 quotient, truncating
reverse(amountIn) == DivRem(amountIn, WETH_TO_WUSDT_RATE).quot

----------------------------------------------------------------------------
(* Addresses *)

NullAddress == "0x0"
EngineAddr == "swap"
Users == {"alice", "bob"}
\* the users are interchangeable: one of them holds funds, grants and swaps,
\* the other is the third party who receives, transfers and acts as delegate
Owners == {"alice"}
Account == Users \cup {EngineAddr}
Token == {"wETH", "wUSDT"}

----------------------------------------------------------------------------
(* Inputs the transactions are drawn from *)

\* smallest amount whose product with the rate leaves the 64-bit range:
\* 5950562604422437 * 3100 = 2^64 + 3084
WrapAmount == <<5413, 21056, 9217, 21>>

\* the faucet hands out two units of wETH, or their worth in wUSDT
MintAmount(token) == IF token = "wETH" THEN 2 ELSE 2 * WETH_TO_WUSDT_RATE
SwapAmounts == {U64(1), U64(3), U64(3100), U64(6200), WrapAmount}
TransferAmounts == {U64(1)}
\* a grant that expires within the run and one that outlasts it
Expiries == {1, MaxTime + 1}

\* an encrypted input as the client produces it: the value, the
\* (contract, account) pair it is bound to, and whether the proof is intact
EncryptedInput(value, contract, user, intact) ==
    [value |-> value, contract |-> contract, user |-> user, intact |-> intact]

\* inputs a caller can submit: its own well-formed inputs, a tampered one,
\* one bound to another account and one bound to another contract
InputsOf(caller) ==
    {EncryptedInput(v, EngineAddr, caller, TRUE) : v \in SwapAmounts}
    \cup {EncryptedInput(U64(1), EngineAddr, caller, FALSE)}
    \cup {EncryptedInput(U64(1), EngineAddr, u, TRUE) : u \in Users \ {caller}}
    \cup {EncryptedInput(U64(1), "wETH", caller, TRUE)}

NoInput == EncryptedInput(U64Zero, NullAddress, NullAddress, FALSE)

----------------------------------------------------------------------------
(* ConfidentialLedger: the contract of wETH and wUSDT *)

\* balanceOf(account)
confidentialBalanceOf(token, account) == bal[token][account]

\* isOperator(owner, delegate): an unexpired grant exists
isOperator(token, owner, delegate) == now < operators[token][owner][delegate]

\* the amount a ledger actually moves out of a balance of `available`
Transferred(amount, available) ==
    IF U64Le(amount, U64(available)) THEN ToNat(amount)
    ELSE IF shortfall = "balance" THEN available
    ELSE 0

\* variant: the recipient is credited but the sender is not debited
Update_noDebit(b, token, from, to, amount) ==
    LET moved == Transferred(amount, b[token][from])
    IN  [ok |-> TRUE,
         bal |-> [b EXCEPT ![token][to] = @ + moved],
         transferred |-> moved]

\* debit `from`, credit `to` with the amount actually moved
Update(b, token, from, to, amount) ==
    LET moved == Transferred(amount, b[token][from])
        debited == [b EXCEPT ![token][from] = @ - moved]
    IN  [ok |-> TRUE,
         bal |-> [debited EXCEPT ![token][to] = @ + moved],
         transferred |-> moved]

Rejected(b) == [ok |-> FALSE, bal |-> b, transferred |-> 0]

\* confidentialTransfer(to, amount) sent by `caller`
confidentialTransfer(b, token, caller, to, amount) ==
    Update(b, token, caller, to, amount)

\* confidentialTransferFrom(from, to, amount) sent by `caller`
confidentialTransferFrom(b, token, caller, from, to, amount) ==
    IF isOperator(token, from, caller)
    THEN Update(b, token, from, to, amount)
    ELSE Rejected(b)

----------------------------------------------------------------------------
(* OpaqueSwap *)

NotDeployed == [deployed |-> FALSE, wETH |-> NullAddress, wUSDT |-> NullAddress]

\* variant: only a pair of two null addresses is refused
constructor_and(wethAddress, wusdtAddress) ==
    IF wethAddress = NullAddress /\ wusdtAddress = NullAddress
    THEN [ok |-> FALSE, error |-> "InvalidTokenAddress", engine |-> NotDeployed]
    ELSE [ok |-> TRUE, error |-> "",
          engine |-> [deployed |-> TRUE, wETH |-> wethAddress, wUSDT |-> wusdtAddress]]

\* constructor(wethAddress, wusdtAddress)
constructor(wethAddress, wusdtAddress) ==
    IF wethAddress = NullAddress \/ wusdtAddress = NullAddress
    THEN [ok |-> FALSE, error |-> "InvalidTokenAddress", engine |-> NotDeployed]
    ELSE [ok |-> TRUE, error |-> "",
          engine |-> [deployed |-> TRUE, wETH |-> wethAddress, wUSDT |-> wusdtAddress]]

\* getTokenAddresses()
getTokenAddresses == <<engine.wETH, engine.wUSDT>>

\* FHE.fromExternal(handle, inputProof): the input verifies only when its
\* proof is intact and it is bound to this contract and to msg.sender
fromExternal(input, caller) ==
    [ok |-> input.intact /\ input.contract = EngineAddr /\ input.user = caller,
     value |-> input.value]

SwapReverted(error) ==
    [ok |-> FALSE, error |-> error, bal |-> bal,
     amountIn |-> U64Zero, amountOut |-> U64Zero,
     transferredIn |-> 0, transferredOut |-> 0, events |-> <<>>]

SwapEvent(name, user, amountIn, amountOut) ==
    [name |-> name, user |-> user, amountIn |-> amountIn, amountOut |-> amountOut]

\* variant: a refused transfer-in is ignored and the transfer-out still made
SwapLegs_partial(caller, tokenIn, tokenOut, amountIn, amountOut, eventName) ==
    LET legIn == confidentialTransferFrom(bal, tokenIn, EngineAddr, caller, EngineAddr, amountIn)
        legOut == confidentialTransfer(legIn.bal, tokenOut, EngineAddr, caller, amountOut)
    IN  IF ~legIn.ok
        THEN [SwapReverted("UnauthorizedSpender") EXCEPT !.bal = legOut.bal]
        ELSE [ok |-> TRUE, error |-> "", bal |-> legOut.bal,
              amountIn |-> amountIn, amountOut |-> amountOut,
              transferredIn |-> legIn.transferred,
              transferredOut |-> legOut.transferred,
              events |-> <<SwapEvent(eventName, caller, amountIn, U64(legOut.transferred))>>]

\* variant: the engine requires the transfer-in to move the full amount
SwapLegs_requireFull(caller, tokenIn, tokenOut, amountIn, amountOut, eventName) ==
    LET legIn == confidentialTransferFrom(bal, tokenIn, EngineAddr, caller, EngineAddr, amountIn)
        legOut == confidentialTransfer(legIn.bal, tokenOut, EngineAddr, caller, amountOut)
    IN  IF ~legIn.ok THEN SwapReverted("UnauthorizedSpender")
        ELSE IF U64(legIn.transferred) # amountIn THEN SwapReverted("Shortfall")
        ELSE [ok |-> TRUE, error |-> "", bal |-> legOut.bal,
              amountIn |-> amountIn, amountOut |-> amountOut,
              transferredIn |-> legIn.transferred,
              transferredOut |-> legOut.transferred,
              events |-> <<SwapEvent(eventName, caller, amountIn, U64(legOut.transferred))>>]

\* variant: the record carries the computed amount out, not what the ledger
\* returned for the transfer out
SwapLegs_eventAmountOut(caller, tokenIn, tokenOut, amountIn, amountOut, eventName) ==
    LET legIn == confidentialTransferFrom(bal, tokenIn, EngineAddr, caller, EngineAddr, amountIn)
        legOut == confidentialTransfer(legIn.bal, tokenOut, EngineAddr, caller, amountOut)
    IN  IF ~legIn.ok THEN SwapReverted("UnauthorizedSpender")
        ELSE [ok |-> TRUE, error |-> "", bal |-> legOut.bal,
              amountIn |-> amountIn, amountOut |-> amountOut,
              transferredIn |-> legIn.transferred,
              transferredOut |-> legOut.transferred,
              events |-> <<SwapEvent(eventName, caller, amountIn, amountOut)>>]

\* variant: the engine reverts when its own balance cannot pay the amount out
SwapLegs_requireLiquidity(caller, tokenIn, tokenOut, amountIn, amountOut, eventName) ==
    LET legIn == confidentialTransferFrom(bal, tokenIn, EngineAddr, caller, EngineAddr, amountIn)
        legOut == confidentialTransfer(legIn.bal, tokenOut, EngineAddr, caller, amountOut)
    IN  IF ~legIn.ok THEN SwapReverted("UnauthorizedSpender")
        ELSE IF U64(legOut.transferred) # amountOut THEN SwapReverted("Liquidity")
        ELSE [ok |-> TRUE, error |-> "", bal |-> legOut.bal,
              amountIn |-> amountIn, amountOut |-> amountOut,
              transferredIn |-> legIn.transferred,
              transferredOut |-> legOut.transferred,
              events |-> <<SwapEvent(eventName, caller, amountIn, U64(legOut.transferred))>>]

\* variant: the call returns the computed amount out, not what the ledger
\* returned for the transfer out
SwapLegs_returnsAmountOut(caller, tokenIn, tokenOut, amountIn, amountOut, eventName) ==
    LET legIn == confidentialTransferFrom(bal, tokenIn, EngineAddr, caller, EngineAddr, amountIn)
        legOut == confidentialTransfer(legIn.bal, tokenOut, EngineAddr, caller, amountOut)
    IN  IF ~legIn.ok THEN SwapReverted("UnauthorizedSpender")
        ELSE [ok |-> TRUE, error |-> "", bal |-> legOut.bal,
              amountIn |-> amountIn, amountOut |-> amountOut,
              transferredIn |-> legIn.transferred,
              transferredOut |-> ToNat(amountOut),
              events |-> <<SwapEvent(eventName, caller, amountIn, U64(legOut.transferred))>>]

\* variant: the amount out is paid to a fixed account, not to the caller
SwapLegs_payThird(caller, tokenIn, tokenOut, amountIn, amountOut, eventName) ==
    LET legIn == confidentialTransferFrom(bal, tokenIn, EngineAddr, caller, EngineAddr, amountIn)
        legOut == confidentialTransfer(legIn.bal, tokenOut, EngineAddr, "bob", amountOut)
    IN  IF ~legIn.ok THEN SwapReverted("UnauthorizedSpender")
        ELSE [ok |-> TRUE, error |-> "", bal |-> legOut.bal,
              amountIn |-> amountIn, amountOut |-> amountOut,
              transferredIn |-> legIn.transferred,
              transferredOut |-> legOut.transferred,
              events |-> <<SwapEvent(eventName, caller, amountIn, U64(legOut.transferred))>>]

\* the two transfer legs shared by both directions, run in one transaction
SwapLegs(caller, tokenIn, tokenOut, amountIn, amountOut, eventName) ==
    LET legIn == confidentialTransferFrom(bal, tokenIn, EngineAddr, caller, EngineAddr, amountIn)
        legOut == confidentialTransfer(legIn.bal, tokenOut, EngineAddr, caller, amountOut)
    IN  IF ~legIn.ok THEN SwapReverted("UnauthorizedSpender")
        ELSE [ok |-> TRUE, error |-> "", bal |-> legOut.bal,
              amountIn |-> amountIn, amountOut |-> amountOut,
              transferredIn |-> legIn.transferred,
              transferredOut |-> legOut.transferred,
              events |-> <<SwapEvent(eventName, caller, amountIn, U64(legOut.transferred))>>]

\* variant: the amount out is divided by the rate instead of multiplied
swapWethForWusdt_div(caller, input) ==
    LET ingested == fromExternal(input, caller)
        amountIn == ingested.value
        amountOut == reverse(amountIn)
    IN  IF ~ingested.ok THEN SwapReverted("InvalidInput")
        ELSE SwapLegs(caller, engine.wETH, engine.wUSDT, amountIn, amountOut,
                      "SwapWethForWusdt")

\* variant: the amount out is computed from what the transfer in has moved
swapWethForWusdt_fromDebited(caller, input) ==
    LET ingested == fromExternal(input, caller)
        amountIn == ingested.value
        legIn == confidentialTransferFrom(bal, engine.wETH, EngineAddr, caller,
                                          EngineAddr, amountIn)
        amountOut == forward(U64(legIn.transferred))
    IN  IF ~ingested.ok THEN SwapReverted("InvalidInput")
        ELSE SwapLegs(caller, engine.wETH, engine.wUSDT, amountIn, amountOut,
                      "SwapWethForWusdt")

\* variant: the input is used without the check of its proof and binding
swapWethForWusdt_unchecked(caller, input) ==
    SwapLegs(caller, engine.wETH, engine.wUSDT, input.value, forward(input.value),
             "SwapWethForWusdt")

\* swapWethForWusdt(encryptedWethAmount, inputProof) sent by `caller`
swapWethForWusdt(caller, input) ==
    LET ingested == fromExternal(input, caller)
        amountIn == ingested.value
        amountOut == forward(amountIn)
    IN  IF ~ingested.ok THEN SwapReverted("InvalidInput")
        ELSE SwapLegs(caller, engine.wETH, engine.wUSDT, amountIn, amountOut,
                      "SwapWethForWusdt")

\* variant: the amount out is multiplied by the rate instead of divided
swapWusdtForWeth_mul(caller, input) ==
    LET ingested == fromExternal(input, caller)
        amountIn == ingested.value
        amountOut == forward(amountIn)
    IN  IF ~ingested.ok THEN SwapReverted("InvalidInput")
        ELSE SwapLegs(caller, engine.wUSDT, engine.wETH, amountIn, amountOut,
                      "SwapWusdtForWeth")

\* variant: the two ledgers are mixed up, wETH is pulled and wUSDT pushed
swapWusdtForWeth_ledgers(caller, input) ==
    LET ingested == fromExternal(input, caller)
        amountIn == ingested.value
        amountOut == reverse(amountIn)
    IN  IF ~ingested.ok THEN SwapReverted("InvalidInput")
        ELSE SwapLegs(caller, engine.wETH, engine.wUSDT, amountIn, amountOut,
                      "SwapWusdtForWeth")

\* variant: the quotient is rounded up, so a small amount still pays one unit
swapWusdtForWeth_ceil(caller, input) ==
    LET ingested == fromExternal(input, caller)
        amountIn == ingested.value
        amountOut == reverse_ceil(amountIn)
    IN  IF ~ingested.ok THEN SwapReverted("InvalidInput")
        ELSE SwapLegs(caller, engine.wUSDT, engine.wETH, amountIn, amountOut,
                      "SwapWusdtForWeth")

\* swapWusdtForWeth(encryptedUsdtAmount, inputProof) sent by `caller`
swapWusdtForWeth(caller, input) ==
    LET ingested == fromExternal(input, caller)
        amountIn == ingested.value
        amountOut == reverse(amountIn)
    IN  IF ~ingested.ok THEN SwapReverted("InvalidInput")
        ELSE SwapLegs(caller, engine.wUSDT, engine.wETH, amountIn, amountOut,
                      "SwapWusdtForWeth")

----------------------------------------------------------------------------
(* Transactions *)

\* what is recorded of a transaction: who sent what, the state it ran in,
\* and what it did
Outcome(op, caller, tokenIn, tokenOut, from, to, input, res) ==
    [op |-> op, caller |-> caller, tokenIn |-> tokenIn, tokenOut |-> tokenOut,
     from |-> from, to |-> to, input |-> input,
     time |-> now, pre |-> bal, grants |-> operators,
     ok |-> res.ok, error |-> res.error,
     amountIn |-> res.amountIn, amountOut |-> res.amountOut,
     transferredIn |-> res.transferredIn, transferredOut |-> res.transferredOut,
     events |-> res.events]

\* the outcome of a transaction that is not a swap
Plain(ok, error, amount, transferred) ==
    [ok |-> ok, error |-> error, amountIn |-> amount, amountOut |-> U64Zero,
     transferredIn |-> transferred, transferredOut |-> 0, events |-> <<>>]

NoOutcome ==
    [op |-> "none", caller |-> NullAddress, tokenIn |-> NullAddress,
     tokenOut |-> NullAddress, from |-> NullAddress, to |-> NullAddress,
     input |-> NoInput, time |-> 0,
     pre |-> [t \in Token |-> [a \in Account |-> 0]],
     grants |-> [t \in Token |-> [o \in Account |-> [d \in Account |-> 0]]],
     ok |-> FALSE, error |-> "", amountIn |-> U64Zero, amountOut |-> U64Zero,
     transferredIn |-> 0, transferredOut |-> 0, events |-> <<>>]

\* deployment of the engine
Deploy(wethAddress, wusdtAddress) ==
    /\ ~engine.deployed
    /\ calls < MaxCalls
    /\ calls' = calls + 1
    /\ LET res == constructor(wethAddress, wusdtAddress)
       IN  /\ engine' = res.engine
           /\ last' = Outcome("constructor", NullAddress, wethAddress, wusdtAddress,
                              NullAddress, NullAddress, NoInput,
                              Plain(res.ok, res.error, U64Zero, 0))
    /\ UNCHANGED <<bal, operators, supply, now, shortfall, arithVars, clientVars>>

\* mint(to, amount) on a token: the bootstrap faucet
Mint(token, to, amount) ==
    /\ calls < MaxCalls
    /\ bal' = [bal EXCEPT ![token][to] = @ + amount]
    /\ supply' = [supply EXCEPT ![token] = @ + amount]
    /\ calls' = calls + 1
    /\ last' = Outcome("mint", NullAddress, token, token, NullAddress, to, NoInput,
                       Plain(TRUE, "", U64(amount), amount))
    /\ UNCHANGED <<engine, operators, now, shortfall, arithVars, clientVars>>

\* variant: a grant is merged with the one it follows, the later expiry wins
SetOperator_merge(caller, token, delegate, until) ==
    /\ calls < MaxCalls
    /\ operators' = [operators EXCEPT ![token][caller][delegate] =
                        IF @ > until THEN @ ELSE until]
    /\ calls' = calls + 1
    /\ last' = Outcome("setOperator", caller, token, token, caller, delegate, NoInput,
                       Plain(TRUE, "", U64(until), 0))
    /\ UNCHANGED <<engine, bal, supply, now, shortfall, arithVars, clientVars>>

\* setOperator(delegate, until) on a token, sent by the owner
SetOperator(caller, token, delegate, until) ==
    /\ calls < MaxCalls
    /\ operators' = [operators EXCEPT ![token][caller][delegate] = until]
    /\ calls' = calls + 1
    /\ last' = Outcome("setOperator", caller, token, token, caller, delegate, NoInput,
                       Plain(TRUE, "", U64(until), 0))
    /\ UNCHANGED <<engine, bal, supply, now, shortfall, arithVars, clientVars>>

\* confidentialTransfer(to, amount) on a token, sent by a user
Transfer(caller, token, to, amount) ==
    /\ calls < MaxCalls
    /\ LET res == confidentialTransfer(bal, token, caller, to, amount)
       IN  /\ bal' = res.bal
           /\ last' = Outcome("confidentialTransfer", caller, token, token, caller, to,
                              NoInput, Plain(res.ok, "", amount, res.transferred))
    /\ calls' = calls + 1
    /\ UNCHANGED <<engine, operators, supply, now, shortfall, arithVars, clientVars>>

\* confidentialTransferFrom(from, to, amount) on a token, sent by a user
TransferFrom(caller, token, from, to, amount) ==
    /\ calls < MaxCalls
    /\ LET res == confidentialTransferFrom(bal, token, caller, from, to, amount)
       IN  /\ bal' = res.bal
           /\ last' = Outcome("confidentialTransferFrom", caller, token, token, from, to,
                              NoInput,
                              Plain(res.ok, IF res.ok THEN "" ELSE "UnauthorizedSpender",
                                    amount, res.transferred))
    /\ calls' = calls + 1
    /\ UNCHANGED <<engine, operators, supply, now, shortfall, arithVars, clientVars>>

\* swapWethForWusdt sent by a user
SwapForward(caller, input) ==
    /\ engine.deployed
    /\ calls < MaxCalls
    /\ LET res == swapWethForWusdt(caller, input)
       IN  /\ bal' = res.bal
           /\ last' = Outcome("swapWethForWusdt", caller, engine.wETH, engine.wUSDT,
                              caller, EngineAddr, input, res)
    /\ calls' = calls + 1
    /\ UNCHANGED <<engine, operators, supply, now, shortfall, arithVars, clientVars>>

\* swapWusdtForWeth sent by a user
SwapReverse(caller, input) ==
    /\ engine.deployed
    /\ calls < MaxCalls
    /\ LET res == swapWusdtForWeth(caller, input)
       IN  /\ bal' = res.bal
           /\ last' = Outcome("swapWusdtForWeth", caller, engine.wUSDT, engine.wETH,
                              caller, EngineAddr, input, res)
    /\ calls' = calls + 1
    /\ UNCHANGED <<engine, operators, supply, now, shortfall, arithVars, clientVars>>

\* a block is mined: the timestamp advances
Tick ==
    /\ now < MaxTime
    /\ now' = now + 1
    /\ UNCHANGED <<engine, bal, operators, supply, shortfall, calls, last, arithVars, clientVars>>

----------------------------------------------------------------------------
(* Rate arithmetic applied to a 64-bit input *)

LimbSamples == {0, 1, 21, 3099, 3100, 3101, 65535}

ArithInputs ==
    {U64(n) : n \in 0..MaxProbe}
    \cup {<<a, b, c, d>> : a \in {0, 5413, 65535}, b \in {0, 21056, 65535},
                           c \in {0, 9217, 65535}, d \in LimbSamples}
    \cup {<<5412, 21056, 9217, 21>>}

\* the decimals of both tokens and the client's copy of the rate
DECIMALS == 6
RATE == 3100

\* a bigint of the client, wide enough for a 64-bit value times RATE:
\* five limbs, least significant first
BigOf(a) == a \o <<0>>
BigZero == <<0, 0, 0, 0, 0>>

\* value * k on bigints, for a value below 2^64: nothing is cut off
BigMul(b, k) ==
    LET m == MulCarry(SubSeq(b, 1, 4), k)
    IN  m.low \o <<m.carry>>

\* value / k and value % k on bigints (0 < k < 2^15)
BigDivRem(b, k) ==
    LET c5 == b[5]
        c4 == (c5 % k) * Base + b[4]
        c3 == (c4 % k) * Base + b[3]
        c2 == (c3 % k) * Base + b[2]
        c1 == (c2 % k) * Base + b[1]
    IN  [quot |-> <<c1 \div k, c2 \div k, c3 \div k, c4 \div k, c5 \div k>>,
         rem |-> c1 % k]

\* formatUnits(value, DECIMALS): the decimal text of value / 10^6, given by
\* its whole part and its six fraction digits
formatUnits(value) ==
    LET low == BigDivRem(value, 1000)
        high == BigDivRem(low.quot, 1000)
    IN  [whole |-> high.quot, fraction |-> high.rem * 1000 + low.rem]

\* parseUnits(text, DECIMALS) of a text with a whole part below 2^64 / 10^6:
\* whole * 10^6 + fraction
parseUnits(text) ==
    LET thousands == BigMul(text.whole, 1000)
        millions == BigMul(thousands, 1000)
        sum == AddCarry(SubSeq(millions, 1, 4), text.fraction)
    IN  sum.low \o <<millions[5] + sum.carry>>

\* buildSwapPreview for a form text that parses
buildSwapPreview(swapAmount, swapDirection) ==
    LET value == parseUnits(swapAmount)
    IN  IF swapDirection = "wethToWusdt"
        THEN formatUnits(BigMul(value, RATE))
        ELSE formatUnits(BigDivRem(value, RATE).quot)

NoPreview == [whole |-> BigZero, fraction |-> 0]

NoArith ==
    [fwd |-> U64Zero, rev |-> U64Zero, back |-> U64Zero,
     previewFwd |-> NoPreview, previewRev |-> NoPreview]

Convert ==
    /\ aphase = "input"
    /\ aout' = [fwd |-> forward(ax), rev |-> reverse(ax), back |-> reverse(forward(ax)),
                previewFwd |-> buildSwapPreview(formatUnits(BigOf(ax)), "wethToWusdt"),
                previewRev |-> buildSwapPreview(formatUnits(BigOf(ax)), "wusdtToWeth")]
    /\ aphase' = "done"
    /\ UNCHANGED <<ax, ledgerVars, clientVars>>

----------------------------------------------------------------------------
(* DexApp: the client of one connected account *)

\* the connected account and the contract addresses the client is set to
address == "alice"
typedAddresses == [swap |-> EngineAddr, weth |-> "wETH", wusdt |-> "wUSDT"]

Null == "null"
\* a handle names a ciphertext: its serial and the value it encrypts
ZERO_HANDLE == [serial |-> 0, clear |-> 0]
\* no handle read yet (null)
NoHandle == [serial |-> -1, clear |-> 0]
\* no cleartext shown (null)
NoClear == -1

\* confidentialBalanceOf(address) as the client reads it: the handle of the
\* balance, the zero handle for a balance never written
HandleOf(token) ==
    IF balanceHandle[token] = 0 THEN ZERO_HANDLE
    ELSE [serial |-> balanceHandle[token], clear |-> bal[token][address]]

MsgConnectDecrypt == "Connect wallet and initialize encryption to decrypt balances."
MsgNotAvailable == "Encrypted balance not available yet."
MsgNoSigner == "Signer not available."
MsgDecryptFailed == "Failed to decrypt balance"
MsgConnectSwap == "Connect wallet and initialize encryption before swapping."
MsgPositive == "Enter a positive swap amount."
MsgEncrypting == "Encrypting swap input..."
MsgSubmitted == "Swap submitted. Waiting for confirmation..."
MsgSwapFailed == "Swap failed"
MsgRefreshFailed == "Failed to refresh on-chain data"

\* what an awaited call can throw when it fails for `cause`: an Error with
\* the message of its cause, or a value that is not an Error
Thrown(cause) ==
    {[isError |-> TRUE, message |-> cause], [isError |-> FALSE, message |-> ""]}

NoError == [isError |-> FALSE, message |-> ""]

\* how an awaited call settles: it resolves, or rejects with a thrown value
Settled(cause) ==
    {[ok |-> TRUE, error |-> NoError]}
    \cup {[ok |-> FALSE, error |-> e] : e \in Thrown(cause)}

\* error instanceof Error ? error.message : fallback
ErrorText(error, fallback) == IF error.isError THEN error.message ELSE fallback

\* what executeSwap reports when the transaction it waited for reverted
RevertText(error) == ErrorText(error, MsgSwapFailed)

\* setStatusMessage(message); `kind` tells what the message reports: a
\* failure in the client, a rejection on chain, or neither
Show(message, kind) ==
    /\ statusMessage' = message
    /\ failure' = kind

\* amounts typed in the swap form, after parseUnits
FormAmounts == {0, 1}

\* an invocation of decryptBalance: where it stands, and its locals
NoDecrypt == [pc |-> "idle", token |-> Null, handle |-> NoHandle, keypair |-> 0]

\* the invocation of executeSwap: where it stands, how many were started,
\* and its locals
NoSwap == [pc |-> "idle", n |-> 0, direction |-> Null, amount |-> 0, input |-> NoInput]

\* an invocation that has returned: its locals are gone
DecryptDone == [NoDecrypt EXCEPT !.pc = "done"]
SwapDone(call) == [NoSwap EXCEPT !.pc = "done", !.n = call.n]

\* refreshOnChainData from the Refresh button, which is disabled while a
\* refresh runs: both handles are read again, the cleartexts are dropped
Refresh(settled) ==
    /\ swapCall.pc # "refreshing"
    /\ IF settled.ok
       THEN /\ encryptedBalances' = [t \in Token |-> HandleOf(t)]
            /\ decryptedBalances' = [t \in Token |-> NoClear]
            /\ Show(Null, Null)
       ELSE /\ Show(ErrorText(settled.error, MsgRefreshFailed), "client")
            /\ UNCHANGED <<encryptedBalances, decryptedBalances>>
    /\ UNCHANGED <<ledgerVars, arithVars, balanceHandle, isDecrypting, decryptCalls,
                   swapCall, keypairs>>

\* variant: only a missing handle is refused, the zero handle is decrypted
DecryptStart_zeroPasses(i, token, ready) ==
    /\ decryptCalls[i].pc = "idle"
    /\ IF i = 1 THEN TRUE ELSE decryptCalls[i - 1].pc # "idle"
    /\ isDecrypting # token
    /\ LET handle == encryptedBalances[token]
           call == [NoDecrypt EXCEPT !.token = token, !.handle = handle]
       IN  IF ~ready
           THEN /\ Show(MsgConnectDecrypt, Null)
                /\ decryptCalls' = [decryptCalls EXCEPT ![i] = DecryptDone]
           ELSE IF handle = NoHandle
           THEN /\ Show(MsgNotAvailable, Null)
                /\ decryptCalls' = [decryptCalls EXCEPT ![i] = DecryptDone]
           ELSE /\ decryptCalls' = [decryptCalls EXCEPT ![i] = [call EXCEPT !.pc = "signer"]]
                /\ UNCHANGED <<statusMessage, failure>>
    /\ UNCHANGED <<ledgerVars, arithVars, balanceHandle, encryptedBalances,
                   decryptedBalances, isDecrypting, swapCall, keypairs>>

\* decryptBalance(token), from the click on an enabled Decrypt button to the
\* first await
DecryptStart(i, token, ready) ==
    /\ decryptCalls[i].pc = "idle"
    /\ IF i = 1 THEN TRUE ELSE decryptCalls[i - 1].pc # "idle"
    /\ isDecrypting # token
    /\ LET handle == encryptedBalances[token]
           call == [NoDecrypt EXCEPT !.token = token, !.handle = handle]
       IN  IF ~ready
           THEN /\ Show(MsgConnectDecrypt, Null)
                /\ decryptCalls' = [decryptCalls EXCEPT ![i] = DecryptDone]
           ELSE IF handle = NoHandle \/ handle = ZERO_HANDLE
           THEN /\ Show(MsgNotAvailable, Null)
                /\ decryptCalls' = [decryptCalls EXCEPT ![i] = DecryptDone]
           ELSE /\ decryptCalls' = [decryptCalls EXCEPT ![i] = [call EXCEPT !.pc = "signer"]]
                /\ UNCHANGED <<statusMessage, failure>>
    /\ UNCHANGED <<ledgerVars, arithVars, balanceHandle, encryptedBalances,
                   decryptedBalances, isDecrypting, swapCall, keypairs>>

\* variant: the keypair is generated once and kept for later invocations
DecryptSigner_sharedKeypair(i, signer) ==
    /\ decryptCalls[i].pc = "signer"
    /\ IF ~signer
       THEN /\ Show(MsgNoSigner, Null)
            /\ decryptCalls' = [decryptCalls EXCEPT ![i] = DecryptDone]
            /\ UNCHANGED <<isDecrypting, keypairs>>
       ELSE /\ isDecrypting' = decryptCalls[i].token
            /\ Show(Null, Null)
            /\ keypairs' = 1
            /\ decryptCalls' = [decryptCalls EXCEPT ![i] =
                                  [@ EXCEPT !.pc = "signature", !.keypair = 1]]
    /\ UNCHANGED <<ledgerVars, arithVars, balanceHandle, encryptedBalances,
                   decryptedBalances, swapCall>>

\* decryptBalance: signerPromise has settled; with a signer the token is
\* marked busy, a keypair is generated and the signature is requested
DecryptSigner(i, signer) ==
    /\ decryptCalls[i].pc = "signer"
    /\ IF ~signer
       THEN /\ Show(MsgNoSigner, Null)
            /\ decryptCalls' = [decryptCalls EXCEPT ![i] = DecryptDone]
            /\ UNCHANGED <<isDecrypting, keypairs>>
       ELSE /\ isDecrypting' = decryptCalls[i].token
            /\ Show(Null, Null)
            /\ keypairs' = keypairs + 1
            /\ decryptCalls' = [decryptCalls EXCEPT ![i] =
                                  [@ EXCEPT !.pc = "signature", !.keypair = keypairs + 1]]
    /\ UNCHANGED <<ledgerVars, arithVars, balanceHandle, encryptedBalances,
                   decryptedBalances, swapCall>>

\* variant: the service is called whether or not the caller has signed
DecryptSigned_ignoresRejection(i, settled) ==
    /\ decryptCalls[i].pc = "signature"
    /\ decryptCalls' = [decryptCalls EXCEPT ![i] = [@ EXCEPT !.pc = "service"]]
    /\ UNCHANGED <<statusMessage, failure, isDecrypting>>
    /\ UNCHANGED <<ledgerVars, arithVars, balanceHandle, encryptedBalances,
                   decryptedBalances, swapCall, keypairs>>

\* decryptBalance: signTypedData has settled; with a signature the
\* decryption service is called
DecryptSigned(i, settled) ==
    /\ decryptCalls[i].pc = "signature"
    /\ IF settled.ok
       THEN /\ decryptCalls' = [decryptCalls EXCEPT ![i] = [@ EXCEPT !.pc = "service"]]
            /\ UNCHANGED <<statusMessage, failure, isDecrypting>>
       ELSE /\ Show(ErrorText(settled.error, MsgDecryptFailed), "client")
            /\ isDecrypting' = Null
            /\ decryptCalls' = [decryptCalls EXCEPT ![i] = DecryptDone]
    /\ UNCHANGED <<ledgerVars, arithVars, balanceHandle, encryptedBalances,
                   decryptedBalances, swapCall, keypairs>>

\* variant: the busy state is cleared only when the cleartext was received
DecryptServed_noFinally(i, settled) ==
    /\ decryptCalls[i].pc = "service"
    /\ IF settled.ok
       THEN /\ decryptedBalances' =
                  [decryptedBalances EXCEPT ![decryptCalls[i].token] = decryptCalls[i].handle.clear]
            /\ decryptCalls' = [decryptCalls EXCEPT ![i] = DecryptDone]
            /\ isDecrypting' = Null
            /\ UNCHANGED <<statusMessage, failure>>
       ELSE /\ Show(ErrorText(settled.error, MsgDecryptFailed), "client")
            /\ decryptCalls' = [decryptCalls EXCEPT ![i] = DecryptDone]
            /\ UNCHANGED <<decryptedBalances, isDecrypting>>
    /\ UNCHANGED <<ledgerVars, arithVars, balanceHandle, encryptedBalances,
                   swapCall, keypairs>>

\* decryptBalance: userDecrypt has settled; the cleartext of the handle the
\* invocation started with is stored
DecryptServed(i, settled) ==
    /\ decryptCalls[i].pc = "service"
    /\ IF settled.ok
       THEN /\ decryptedBalances' =
                  [decryptedBalances EXCEPT ![decryptCalls[i].token] = decryptCalls[i].handle.clear]
            /\ decryptCalls' = [decryptCalls EXCEPT ![i] = DecryptDone]
            /\ UNCHANGED <<statusMessage, failure>>
       ELSE /\ Show(ErrorText(settled.error, MsgDecryptFailed), "client")
            /\ decryptCalls' = [decryptCalls EXCEPT ![i] = DecryptDone]
            /\ UNCHANGED decryptedBalances
    /\ isDecrypting' = Null
    /\ UNCHANGED <<ledgerVars, arithVars, balanceHandle, encryptedBalances,
                   swapCall, keypairs>>

\* executeSwap, from the click to the first await
SwapStart(direction, amount, ready) ==
    /\ swapCall.pc \in {"idle", "done"}
    /\ swapCall.n < MaxSwaps
    /\ LET call == [NoSwap EXCEPT !.n = swapCall.n + 1, !.direction = direction,
                                  !.amount = amount]
       IN  IF ~ready
           THEN /\ Show(MsgConnectSwap, Null)
                /\ swapCall' = SwapDone(call)
           ELSE /\ swapCall' = [call EXCEPT !.pc = "signer"]
                /\ UNCHANGED <<statusMessage, failure>>
    /\ UNCHANGED <<ledgerVars, arithVars, balanceHandle, encryptedBalances,
                   decryptedBalances, isDecrypting, decryptCalls, keypairs>>

\* executeSwap: signerPromise has settled; the amount is checked and the
\* encryption of the input is started
SwapSigner(signer) ==
    /\ swapCall.pc = "signer"
    /\ IF ~signer
       THEN /\ Show(MsgNoSigner, Null)
            /\ swapCall' = SwapDone(swapCall)
       ELSE IF swapCall.amount <= 0
       THEN /\ Show(MsgPositive, Null)
            /\ swapCall' = SwapDone(swapCall)
       ELSE /\ Show(MsgEncrypting, Null)
            /\ swapCall' = [swapCall EXCEPT !.pc = "encrypting"]
    /\ UNCHANGED <<ledgerVars, arithVars, balanceHandle, encryptedBalances,
                   decryptedBalances, isDecrypting, decryptCalls, keypairs>>

\* executeSwap: createEncryptedInput(swap, address).add64(amount).encrypt()
\* has settled; with an input the swap function is called
SwapEncrypted(settled) ==
    /\ swapCall.pc = "encrypting"
    /\ IF settled.ok
       THEN /\ swapCall' = [swapCall EXCEPT
                              !.pc = "submitting",
                              !.input = EncryptedInput(U64(swapCall.amount),
                                                       typedAddresses.swap, address, TRUE)]
            /\ UNCHANGED <<statusMessage, failure>>
       ELSE /\ Show(ErrorText(settled.error, MsgSwapFailed), "client")
            /\ swapCall' = SwapDone(swapCall)
    /\ UNCHANGED <<ledgerVars, arithVars, balanceHandle, encryptedBalances,
                   decryptedBalances, isDecrypting, decryptCalls, keypairs>>

\* variant: a call that rejects has sent the transaction all the same, and it
\* is mined
SwapSubmitted_sent(settled) ==
    /\ swapCall.pc = "submitting"
    /\ IF settled.ok
       THEN /\ Show(MsgSubmitted, Null)
            /\ swapCall' = [swapCall EXCEPT !.pc = "waiting"]
            /\ UNCHANGED bal
       ELSE /\ Show(ErrorText(settled.error, MsgSwapFailed), "client")
            /\ swapCall' = SwapDone(swapCall)
            /\ bal' = (IF swapCall.direction = "wethToWusdt"
                       THEN swapWethForWusdt(address, swapCall.input)
                       ELSE swapWusdtForWeth(address, swapCall.input)).bal
    /\ UNCHANGED <<engine, operators, supply, now, shortfall, calls, last, arithVars,
                   balanceHandle, encryptedBalances, decryptedBalances, isDecrypting,
                   decryptCalls, keypairs>>

\* executeSwap: the call that sends the transaction has settled
SwapSubmitted(settled) ==
    /\ swapCall.pc = "submitting"
    /\ IF settled.ok
       THEN /\ Show(MsgSubmitted, Null)
            /\ swapCall' = [swapCall EXCEPT !.pc = "waiting"]
                   ELSE /\ Show(ErrorText(settled.error, MsgSwapFailed), "client")
            /\ swapCall' = SwapDone(swapCall)
    /\ UNCHANGED <<ledgerVars, arithVars, balanceHandle, encryptedBalances,
                   decryptedBalances, isDecrypting, decryptCalls, keypairs>>

\* executeSwap: the transaction is mined and tx.wait() settles; a reverted
\* transaction rejects with `error`, a successful one starts the refresh
SwapMined(error) ==
    /\ swapCall.pc = "waiting"
    /\ engine.deployed
    /\ calls < MaxCalls
    /\ LET forwards == swapCall.direction = "wethToWusdt"
           res == IF forwards THEN swapWethForWusdt(address, swapCall.input)
                  ELSE swapWusdtForWeth(address, swapCall.input)
       IN  /\ bal' = res.bal
           /\ last' = Outcome(IF forwards THEN "swapWethForWusdt" ELSE "swapWusdtForWeth",
                              address,
                              IF forwards THEN engine.wETH ELSE engine.wUSDT,
                              IF forwards THEN engine.wUSDT ELSE engine.wETH,
                              address, EngineAddr, swapCall.input, res)
           /\ IF res.ok
              THEN /\ balanceHandle' = [t \in Token |-> balanceHandle[t] + 1]
                   /\ Show(Null, Null)
                   /\ swapCall' = [swapCall EXCEPT !.pc = "refreshing"]
                                 ELSE /\ Show(RevertText(error), "onchain")
                   /\ swapCall' = SwapDone(swapCall)
                   /\ UNCHANGED balanceHandle
    /\ calls' = calls + 1
    /\ UNCHANGED <<engine, operators, supply, now, shortfall, arithVars,
                   encryptedBalances, decryptedBalances, isDecrypting, decryptCalls,
                   keypairs>>

\* executeSwap: the refresh it awaited has settled
SwapRefreshed(settled) ==
    /\ swapCall.pc = "refreshing"
    /\ swapCall' = SwapDone(swapCall)
    /\ IF settled.ok
       THEN /\ encryptedBalances' = [t \in Token |-> HandleOf(t)]
            /\ decryptedBalances' = [t \in Token |-> NoClear]
            /\ UNCHANGED <<statusMessage, failure>>
       ELSE /\ Show(ErrorText(settled.error, MsgRefreshFailed), "client")
            /\ UNCHANGED <<encryptedBalances, decryptedBalances>>
    /\ UNCHANGED <<ledgerVars, arithVars, balanceHandle, isDecrypting, decryptCalls,
                   keypairs>>

----------------------------------------------------------------------------
(* DexApp: operator grants *)

MsgConnectOperator == "Connect wallet and set contract addresses first."
MsgOperatorDays == "Operator duration must be a positive number of days."
MsgOperatorFailed == "Failed to set operator"

SecondsPerDay == 86400

\* Number(operatorDays): not finite (NaN, Infinity), or the number num / den
NotFinite == [finite |-> FALSE, num |-> 0, den |-> 1]
Days(num, den) == [finite |-> TRUE, num |-> num, den |-> den]

\* the texts of the duration field tried: not a number, negative, zero, a
\* hundred-thousandth of a day, half a day, thirty days
OperatorDays ==
    {NotFinite, Days(-1, 1), Days(0, 1), Days(1, 100000), Days(1, 2), Days(30, 1)}

\* Math.floor(days * 86400) for days > 0
FloorSeconds(days) == (days.num * SecondsPerDay) \div days.den

\* setOperatorForToken(token): the guards, the expiry computed from the
\* clock, the setOperator transaction and the refresh after it was mined.
\* The texts shown while the transaction is pending are overwritten before
\* the handler returns.
SetOperatorForToken(token, days, ready, signer, mined, refreshed) ==
    /\ calls < MaxCalls
    /\ LET until == now + FloorSeconds(days)
       IN  IF ~ready \/ ~signer \/ ~days.finite \/ days.num <= 0 \/ ~mined.ok
           THEN /\ IF ~ready THEN Show(MsgConnectOperator, Null)
                   ELSE IF ~signer THEN Show(MsgNoSigner, Null)
                   ELSE IF ~days.finite \/ days.num <= 0 THEN Show(MsgOperatorDays, Null)
                   ELSE Show(ErrorText(mined.error, MsgOperatorFailed), "client")
                /\ UNCHANGED <<operators, calls, last, encryptedBalances, decryptedBalances>>
           ELSE /\ operators' = [operators EXCEPT ![token][address][typedAddresses.swap] = until]
                /\ calls' = calls + 1
                /\ last' = Outcome("setOperator", address, token, token, address,
                                   typedAddresses.swap, NoInput,
                                   Plain(TRUE, "", U64(until), 0))
                /\ IF refreshed.ok
                   THEN /\ encryptedBalances' = [t \in Token |-> HandleOf(t)]
                        /\ decryptedBalances' = [t \in Token |-> NoClear]
                        /\ Show(Null, Null)
                   ELSE /\ Show(ErrorText(refreshed.error, MsgRefreshFailed), "client")
                        /\ UNCHANGED <<encryptedBalances, decryptedBalances>>
    /\ UNCHANGED <<engine, bal, supply, now, shortfall, arithVars, balanceHandle,
                   isDecrypting, decryptCalls, swapCall, keypairs>>

----------------------------------------------------------------------------
(* Specifications *)

\* the ledgers as the test fixture funds them: the user and the engine
\* hold both assets, nobody has granted anything yet
Funded ==
    [t \in Token |-> [a \in Account |->
        IF a = "bob" THEN 0
        ELSE IF a = "alice" THEN MintAmount(t)
        ELSE IF t = "wETH" THEN 1 ELSE 2 * MintAmount(t)]]

\* sum of the balances of a token over all accounts
TotalOf(b, token) == b[token]["alice"] + b[token]["bob"] + b[token][EngineAddr]

LedgerInit ==
    /\ bal = Funded
    /\ operators = [t \in Token |-> [o \in Account |-> [d \in Account |-> 0]]]
    /\ supply = [t \in Token |-> TotalOf(Funded, t)]
    /\ now = 0
    /\ shortfall \in {"balance", "nothing"}
    /\ calls = 0
    /\ last = NoOutcome

ArithIdle ==
    /\ ax = U64Zero
    /\ aout = NoArith
    /\ aphase = "idle"

\* the client as it is mounted: nothing read, nothing shown, nothing running
ClientIdle ==
    /\ encryptedBalances = [t \in Token |-> NoHandle]
    /\ decryptedBalances = [t \in Token |-> NoClear]
    /\ isDecrypting = Null
    /\ statusMessage = Null
    /\ decryptCalls = [i \in 1..MaxDecrypts |-> NoDecrypt]
    /\ swapCall = NoSwap
    /\ keypairs = 0
    /\ failure = Null

\* the connected account's balances have been written by the faucet
ClientHandles == balanceHandle = [t \in Token |-> 1]

\* the engine as the deploy script constructs it
Init ==
    /\ engine = constructor("wETH", "wUSDT").engine
    /\ LedgerInit
    /\ ArithIdle
    /\ ClientIdle
    /\ ClientHandles

Next ==
    \/ \E t \in Token, a \in Account : Mint(t, a, MintAmount(t))
    \/ \E c \in Owners, t \in Token, e \in Expiries : \E d \in Account \ {c} :
          SetOperator(c, t, d, e)
    \/ \E c \in Users, t \in Token, n \in TransferAmounts : \E a \in Account \ {c} :
          Transfer(c, t, a, n)
    \/ \E c \in Users, t \in Token, n \in TransferAmounts :
          \E f \in Owners \ {c} : \E a \in Account \ {f} :
          TransferFrom(c, t, f, a, n)
    \/ \E c \in Owners : \E i \in InputsOf(c) : SwapForward(c, i)
    \/ \E c \in Owners : \E i \in InputsOf(c) : SwapReverse(c, i)
    \/ Tick

Spec == Init /\ [][Next]_vars

\* the engine before its construction; it is constructed over two distinct
\* ledgers in either order, or refused
InitDeploy ==
    /\ engine = NotDeployed
    /\ LedgerInit
    /\ ArithIdle
    /\ ClientIdle
    /\ ClientHandles

NextDeploy ==
    \/ \E w \in Token \cup {NullAddress}, u \in Token \cup {NullAddress} :
          (w = NullAddress \/ w # u) /\ Deploy(w, u)
    \/ Next

SpecDeploy == InitDeploy /\ [][NextDeploy]_vars

\* the rate arithmetic on its own
InitArith ==
    /\ engine = constructor("wETH", "wUSDT").engine
    /\ LedgerInit
    /\ shortfall = "balance"
    /\ ax \in ArithInputs
    /\ aout = NoArith
    /\ aphase = "input"
    /\ ClientIdle
    /\ ClientHandles

SpecArith == InitArith /\ [][Convert]_vars

\* inputs another client could send in the account's name: tampered, or
\* bound to another account or contract
MalformedInputs(caller) ==
    {i \in InputsOf(caller) : ~(i.intact /\ i.contract = EngineAddr /\ i.user = caller)}

\* the client's view of the ledgers: the account holds wETH and has granted
\* the engine on wETH for the whole run; its wUSDT balance was never written
\* and the engine has no grant on it
FundedClient ==
    [t \in Token |-> [a \in Account |->
        IF a = EngineAddr THEN (IF t = "wETH" THEN 1 ELSE 2 * MintAmount(t))
        ELSE IF a = address /\ t = "wETH" THEN MintAmount(t)
        ELSE 0]]

InitClient ==
    /\ engine = constructor("wETH", "wUSDT").engine
    /\ bal = FundedClient
    /\ operators = [t \in Token |-> [o \in Account |-> [d \in Account |->
                      IF t = "wETH" /\ o = address /\ d = EngineAddr
                      THEN MaxTime + 1 ELSE 0]]]
    /\ supply = [t \in Token |-> TotalOf(FundedClient, t)]
    /\ now = 0
    /\ shortfall = "balance"
    /\ calls = 0
    /\ last = NoOutcome
    /\ ArithIdle
    /\ ClientIdle
    /\ balanceHandle = [t \in Token |-> IF t = "wETH" THEN 1 ELSE 0]

NextClient ==
    \/ \E s \in Settled("read failed") : Refresh(s)
    \/ \E i \in 1..MaxDecrypts, t \in Token, ready \in BOOLEAN : DecryptStart(i, t, ready)
    \/ \E i \in 1..MaxDecrypts, signer \in BOOLEAN : DecryptSigner(i, signer)
    \/ \E i \in 1..MaxDecrypts, s \in Settled("signature rejected") : DecryptSigned(i, s)
    \/ \E i \in 1..MaxDecrypts, s \in Settled("decryption service unreachable") :
          DecryptServed(i, s)
    \/ \E d \in {"wethToWusdt", "wusdtToWeth"}, a \in FormAmounts, ready \in BOOLEAN :
          SwapStart(d, a, ready)
    \/ \E signer \in BOOLEAN : SwapSigner(signer)
    \/ \E s \in Settled("encryption failed") : SwapEncrypted(s)
    \/ \E s \in Settled("transaction not sent") : SwapSubmitted(s)
    \/ \E e \in Thrown("transaction reverted") : SwapMined(e)
    \/ \E s \in Settled("read failed") : SwapRefreshed(s)

SpecClient == InitClient /\ [][NextClient]_vars

\* how the call of the decryption service can end: a result holding the
\* handle, a failure of the call, or a result without the handle, whose
\* conversion to a bigint throws
Served ==
    Settled("decryption service unreachable")
    \cup {[ok |-> FALSE,
           error |-> [isError |-> TRUE, message |-> "Cannot convert undefined to a BigInt"]]}

\* the decrypts of the client alone, where the signer, the caller's wallet
\* and the decryption service answer or fail every request made to them
NextDecrypt ==
    \/ \E s \in Settled("read failed") : Refresh(s)
    \/ \E i \in 1..MaxDecrypts, t \in Token, ready \in BOOLEAN : DecryptStart(i, t, ready)
    \/ \E i \in 1..MaxDecrypts, signer \in BOOLEAN : DecryptSigner(i, signer)
    \/ \E i \in 1..MaxDecrypts, s \in Settled("signature rejected") : DecryptSigned(i, s)
    \/ \E i \in 1..MaxDecrypts, s \in Served : DecryptServed(i, s)

Responsive ==
    \A i \in 1..MaxDecrypts :
        /\ WF_vars(\E signer \in BOOLEAN : DecryptSigner(i, signer))
        /\ WF_vars(\E s \in Settled("signature rejected") : DecryptSigned(i, s))
        /\ WF_vars(\E s \in Served : DecryptServed(i, s))

\* as InitClient, with both balances of the account written on chain
InitDecrypt ==
    /\ engine = constructor("wETH", "wUSDT").engine
    /\ bal = FundedClient
    /\ operators = [t \in Token |-> [o \in Account |-> [d \in Account |-> 0]]]
    /\ supply = [t \in Token |-> TotalOf(FundedClient, t)]
    /\ now = 0
    /\ shortfall = "balance"
    /\ calls = 0
    /\ last = NoOutcome
    /\ ArithIdle
    /\ ClientIdle
    /\ ClientHandles

SpecDecrypt == InitDecrypt /\ [][NextDecrypt]_vars /\ Responsive

\* the operator grants of the client as the clock advances
NextGrant ==
    \/ \E t \in Token, d \in OperatorDays, ready \in BOOLEAN, signer \in BOOLEAN,
          m \in Settled("transaction not sent"), r \in Settled("read failed") :
          SetOperatorForToken(t, d, ready, signer, m, r)
    \/ Tick

SpecGrant == InitClient /\ [][NextGrant]_vars

\* the engine called through executeSwap and, with inputs executeSwap does
\* not build, by other callers
NextSubmit ==
    \/ \E d \in {"wethToWusdt", "wusdtToWeth"}, a \in FormAmounts, ready \in BOOLEAN :
          SwapStart(d, a, ready)
    \/ \E signer \in BOOLEAN : SwapSigner(signer)
    \/ \E s \in Settled("encryption failed") : SwapEncrypted(s)
    \/ \E s \in Settled("transaction not sent") : SwapSubmitted(s)
    \/ \E e \in Thrown("transaction reverted") : SwapMined(e)
    \/ \E s \in Settled("read failed") : SwapRefreshed(s)
    \/ \E i \in MalformedInputs(address) : SwapForward(address, i)
    \/ \E i \in MalformedInputs(address) : SwapReverse(address, i)

SpecSubmit == InitClient /\ [][NextSubmit]_vars

----------------------------------------------------------------------------
(* Properties *)

IsSwap == last.op \in {"swapWethForWusdt", "swapWusdtForWeth"}

\* the asset a swap takes in and the asset it pays out
SourceAsset == IF last.op = "swapWethForWusdt" THEN "wETH" ELSE "wUSDT"
TargetAsset == IF last.op = "swapWethForWusdt" THEN "wUSDT" ELSE "wETH"

\* the last call's input was well formed and bound to the engine and the caller
InputBound ==
    /\ last.input.intact
    /\ last.input.contract = EngineAddr
    /\ last.input.user = last.caller

\* when the last call ran, the owner's grant to the delegate had not expired
\* (grants change only in setOperator calls)
GrantedAtCall(token, owner, delegate) == last.time < operators[token][owner][delegate]

\* the last swap asked for more than the caller held of the source asset
Shortfall ==
    /\ IsSwap
    /\ ~U64Le(last.input.value, U64(last.pre[SourceAsset][last.caller]))

\* C1: a swapWethForWusdt(amountIn) by a caller who holds amountIn of wETH and
\* has an unexpired grant to the engine on wETH, while the engine holds
\* amountIn * 3100 of wUSDT, takes exactly amountIn of wETH from the caller and
\* gives the caller exactly amountIn * 3100 of wUSDT.
C1_SwapForwardExact ==
    (/\ last.op = "swapWethForWusdt"
     /\ InputBound
     /\ GrantedAtCall("wETH", last.caller, EngineAddr)
     /\ U64Le(last.input.value, U64(last.pre["wETH"][last.caller]))
     /\ ToNat(last.input.value) * 3100 <= last.pre["wUSDT"][EngineAddr])
    => /\ last.ok
       /\ bal["wETH"][last.caller]
            = last.pre["wETH"][last.caller] - ToNat(last.input.value)
       /\ bal["wUSDT"][last.caller]
            = last.pre["wUSDT"][last.caller] + ToNat(last.input.value) * 3100

C1_Witness ==
    /\ last.op = "swapWethForWusdt"
    /\ last.ok
    /\ last.input.value = U64(1)
    /\ last.pre["wETH"][last.caller] >= 1
    /\ last.pre["wUSDT"][EngineAddr] >= 3100
    /\ bal["wUSDT"][last.caller] = last.pre["wUSDT"][last.caller] + 3100

\* C2: a swapWusdtForWeth(amountIn) by a caller who holds amountIn of wUSDT and
\* has an unexpired grant to the engine on wUSDT, while the engine holds
\* floor(amountIn / 3100) of wETH, takes exactly amountIn of wUSDT from the
\* caller and gives the caller exactly floor(amountIn / 3100) of wETH.
C2_SwapReverseExact ==
    (/\ last.op = "swapWusdtForWeth"
     /\ InputBound
     /\ GrantedAtCall("wUSDT", last.caller, EngineAddr)
     /\ U64Le(last.input.value, U64(last.pre["wUSDT"][last.caller]))
     /\ ToNat(last.input.value) \div 3100 <= last.pre["wETH"][EngineAddr])
    => /\ last.ok
       /\ bal["wUSDT"][last.caller]
            = last.pre["wUSDT"][last.caller] - ToNat(last.input.value)
       /\ bal["wETH"][last.caller]
            = last.pre["wETH"][last.caller] + (ToNat(last.input.value) \div 3100)

C2_Witness ==
    /\ last.op = "swapWusdtForWeth"
    /\ last.ok
    /\ last.input.value = U64(3100)
    /\ last.pre["wUSDT"][last.caller] >= 3100
    /\ last.pre["wETH"][EngineAddr] >= 1
    /\ bal["wETH"][last.caller] = last.pre["wETH"][last.caller] + 1

\* C3: after a successful swapWethForWusdt, clamped or not, the caller's wETH
\* balance is down by the amount the ledger actually debited and the caller's
\* wUSDT balance is up by exactly that amount times 3100.
C3_ForwardFollowsDebit ==
    (last.op = "swapWethForWusdt" /\ last.ok)
    => /\ bal["wETH"][last.caller]
            = last.pre["wETH"][last.caller] - last.transferredIn
       /\ bal["wUSDT"][last.caller]
            = last.pre["wUSDT"][last.caller] + last.transferredIn * 3100

\* C4: the balances of each asset, summed over all accounts and the engine,
\* always equal the amount minted: transfers and swaps, successful or not,
\* create and destroy nothing.
C4_SupplyConserved == \A t \in Token : TotalOf(bal, t) = supply[t]

C4_Witness ==
    /\ last.op = "swapWusdtForWeth"
    /\ last.ok
    /\ last.transferredIn > 0
    /\ last.transferredOut > 0
    /\ bal # Funded

\* C5: a swap that fails leaves every balance of both assets as it was before
\* the call and records nothing; a swap that succeeds shows both legs at once,
\* never the transfer-in alone.
C5_SwapAtomic ==
    /\ (IsSwap /\ ~last.ok)
       => /\ bal = last.pre
          /\ last.events = <<>>
    /\ (IsSwap /\ last.ok)
       => /\ bal[SourceAsset][last.caller]
               = last.pre[SourceAsset][last.caller] - last.transferredIn
          /\ bal[SourceAsset][EngineAddr]
               = last.pre[SourceAsset][EngineAddr] + last.transferredIn
          /\ bal[TargetAsset][last.caller]
               = last.pre[TargetAsset][last.caller] + last.transferredOut
          /\ bal[TargetAsset][EngineAddr]
               = last.pre[TargetAsset][EngineAddr] - last.transferredOut

C5_Witness ==
    /\ IsSwap
    /\ ~last.ok
    /\ InputBound
    /\ last.error = "UnauthorizedSpender"
    /\ last.pre[SourceAsset][last.caller] > 0
    /\ last.pre[TargetAsset][EngineAddr] > 0

\* C6: a confidentialTransferFrom by a delegate succeeds exactly when the
\* owner's grant to that delegate exists with currentTime < expiresAt, and a
\* refused one changes no balance; a swap with a well-formed input succeeds
\* exactly when the caller's grant to the engine on the source asset is
\* unexpired, whatever the grant on the target asset.
C6_OperatorEnforced ==
    /\ last.op = "confidentialTransferFrom"
       => /\ last.ok <=> GrantedAtCall(last.tokenIn, last.from, last.caller)
          /\ ~last.ok => bal = last.pre
    /\ (IsSwap /\ InputBound)
       => (last.ok <=> GrantedAtCall(SourceAsset, last.caller, EngineAddr))

C6_Witness ==
    /\ IsSwap
    /\ last.ok
    /\ GrantedAtCall(SourceAsset, last.caller, EngineAddr)
    /\ ~GrantedAtCall(TargetAsset, last.caller, EngineAddr)

\* C7 as stated: a swap that asks for more than the caller holds of the source
\* asset aborts, and no balance of either asset changes.
C7_ShortfallAborts == Shortfall => (~last.ok /\ bal = last.pre)

\* C7: a swap with a well-formed input and an unexpired grant that asks for
\* more than the caller holds of the source asset is not aborted: it completes,
\* the caller is debited the amount the ledger actually moved, which is at
\* most what the caller held, and is credited what the target ledger moved.
C7_ShortfallCompletes ==
    (Shortfall /\ InputBound /\ GrantedAtCall(SourceAsset, last.caller, EngineAddr))
    => /\ last.ok
       /\ last.transferredIn <= last.pre[SourceAsset][last.caller]
       /\ bal[SourceAsset][last.caller]
            = last.pre[SourceAsset][last.caller] - last.transferredIn
       /\ bal[TargetAsset][last.caller]
            = last.pre[TargetAsset][last.caller] + last.transferredOut

C7_Witness ==
    /\ Shortfall
    /\ last.ok
    /\ last.transferredOut > 0
    /\ bal # last.pre

\* C8: a construction with a null address as either argument fails with
\* InvalidTokenAddress and leaves no engine; a construction with two non-null
\* addresses succeeds, and from then on getTokenAddresses returns those two
\* addresses in that order, whatever follows.
C8_Constructor ==
    /\ [](/\ (last.op = "constructor"
               /\ (last.tokenIn = NullAddress \/ last.tokenOut = NullAddress))
             => (~last.ok /\ last.error = "InvalidTokenAddress")
          /\ ~engine.deployed => engine = NotDeployed)
    /\ [][\A w \in Token \cup {NullAddress}, u \in Token \cup {NullAddress} :
            (Deploy(w, u) /\ w # NullAddress /\ u # NullAddress)
            => (engine'.deployed /\ last'.ok /\ getTokenAddresses' = <<w, u>>)]_vars
    /\ [][engine.deployed
            => (engine'.deployed /\ getTokenAddresses' = getTokenAddresses)]_vars

C8_Witness ==
    /\ engine.deployed
    /\ getTokenAddresses = <<"wUSDT", "wETH">>
    /\ IsSwap
    /\ last.ok
    /\ last.transferredIn > 0

\* C9: reverse(x) is floor(x / 3100) for every 64-bit x: it is the largest q
\* with q * 3100 <= x; it is 0 for every x < 3100 and 1 for x = 3100.
C9_ReverseIsFloor ==
    aphase = "done"
    => LET q == aout.rev
           below == MulCarry(q, 3100)
           above == MulCarry(AddCarry(q, 1).low, 3100)
       IN  /\ below.carry = 0
           /\ U64Le(below.low, ax)
           /\ above.carry > 0 \/ ~U64Le(above.low, ax)
           /\ IsSmall(ax) => q = U64(ToNat(ax) \div 3100)
           /\ (IsSmall(ax) /\ ToNat(ax) < 3100) => q = U64Zero
           /\ ax = U64(3100) => q = U64(1)

C9_Witness ==
    /\ aphase = "done"
    /\ ax = U64Max
    /\ aout.rev = <<5412, 21056, 9217, 21>>

\* C10: reverse(forward(amountIn)) = amountIn for every 64-bit amountIn.
C10_RoundTrip == aphase = "done" => aout.back = ax

\* C11: for every 64-bit amountIn the amount out computed by swapWethForWusdt
\* is the mathematical product amountIn * 3100: the multiplication carries
\* nothing out of the 64 bits, and dividing the result by 3100 gives amountIn
\* back with no remainder.
C11_ProductExact ==
    aphase = "done"
    => /\ MulCarry(ax, 3100).carry = 0
       /\ DivRem(aout.fwd, 3100) = [quot |-> ax, rem |-> 0]

\* C12: a swapWusdtForWeth(amountIn) with 0 < amountIn < 3100, by a caller who
\* holds at least amountIn of wUSDT and has an unexpired grant to the engine,
\* succeeds: the caller's wUSDT goes down by exactly amountIn and the caller's
\* wETH does not change.
C12_SmallReverse ==
    (/\ last.op = "swapWusdtForWeth"
     /\ InputBound
     /\ GrantedAtCall("wUSDT", last.caller, EngineAddr)
     /\ IsSmall(last.input.value)
     /\ 0 < ToNat(last.input.value)
     /\ ToNat(last.input.value) < 3100
     /\ ToNat(last.input.value) <= last.pre["wUSDT"][last.caller])
    => /\ last.ok
       /\ last.error = ""
       /\ last.events # <<>>
       /\ bal["wUSDT"][last.caller]
            = last.pre["wUSDT"][last.caller] - ToNat(last.input.value)
       /\ bal["wETH"][last.caller] = last.pre["wETH"][last.caller]
       /\ bal["wETH"][EngineAddr] = last.pre["wETH"][EngineAddr]

C12_Witness ==
    /\ last.op = "swapWusdtForWeth"
    /\ last.ok
    /\ last.input.value = U64(3)
    /\ last.pre["wETH"][EngineAddr] > 0
    /\ bal["wUSDT"][last.caller] = last.pre["wUSDT"][last.caller] - 3
    /\ bal["wETH"][last.caller] = last.pre["wETH"][last.caller]

\* the name of the record each swap function emits
EventOf(op) == IF op = "swapWethForWusdt" THEN "SwapWethForWusdt" ELSE "SwapWusdtForWeth"

\* C16: a successful swap emits exactly one record, the one of its own
\* direction, naming the caller, the amount taken from the input and the
\* amount the target ledger returned for the transfer out (what the caller
\* was actually credited); a failed swap, and any other call, emits none.
C16_SwapRecord ==
    /\ (IsSwap /\ last.ok)
       => /\ Len(last.events) = 1
          /\ last.events[1].name = EventOf(last.op)
          /\ last.events[1].user = last.caller
          /\ last.events[1].amountIn = last.input.value
          /\ last.events[1].amountOut
               = U64(bal[TargetAsset][last.caller] - last.pre[TargetAsset][last.caller])
    /\ ~(IsSwap /\ last.ok) => last.events = <<>>

C16_Witness ==
    /\ IsSwap
    /\ last.ok
    /\ Len(last.events) = 1
    /\ last.input.value = U64(6200)
    /\ last.events[1].amountOut # last.amountOut
    /\ last.events[1].amountOut = U64(last.transferredOut)

\* C19: whether a swap succeeds or reverts is decided by the validity of the
\* input's proof and binding and by the caller's grant on the source asset at
\* the time of the call, and by nothing else: two calls that agree on these
\* have the same outcome whatever amount is asked and whatever the caller and
\* the engine hold, so the outcome does not tell whether a ledger clamped.
C19_OutcomeAmountBlind ==
    IsSwap
    => (last.ok <=> (InputBound /\ GrantedAtCall(SourceAsset, last.caller, EngineAddr)))

C19_Witness ==
    /\ IsSwap
    /\ last.ok
    /\ Shortfall
    /\ IsSmall(last.amountOut)
    /\ last.transferredOut < ToNat(last.amountOut)

\* C18: a setOperator(delegate, e2) replaces whatever grant the owner had
\* given that delegate: afterwards the grant is e2 and every other grant is
\* as before, so isOperator holds exactly while currentTime < e2, whatever
\* the earlier expiry e1 was; and a swap that directly follows a grant to the
\* engine succeeds exactly when currentTime < e2, so it fails after a grant
\* with a past expiry even though currentTime < e1.
C18_GrantReplaced ==
    /\ [](last.op = "setOperator"
          => /\ operators = [last.grants EXCEPT
                               ![last.tokenIn][last.caller][last.to] = ToNat(last.amountIn)]
             /\ isOperator(last.tokenIn, last.caller, last.to)
                  <=> now < ToNat(last.amountIn))
    /\ [][(/\ last.op = "setOperator"
           /\ last.to = EngineAddr
           /\ last'.op \in {"swapWethForWusdt", "swapWusdtForWeth"}
           /\ last'.caller = last.caller
           /\ last'.tokenIn = last.tokenIn
           /\ last'.input.intact
           /\ last'.input.contract = EngineAddr
           /\ last'.input.user = last'.caller)
          => (last'.ok <=> last'.time < ToNat(last.amountIn))]_vars

\* a grant to the engine that was still running is replaced by one that has
\* already expired
C18_Witness ==
    /\ last.op = "setOperator"
    /\ last.to = EngineAddr
    /\ last.time < last.grants[last.tokenIn][last.caller][EngineAddr]
    /\ ToNat(last.amountIn) <= last.time
    /\ ~isOperator(last.tokenIn, last.caller, EngineAddr)

\* the stored handle of a token is missing or the zero handle
NoBalanceYet(token) ==
    encryptedBalances[token] = NoHandle \/ encryptedBalances[token] = ZERO_HANDLE

\* a decryptBalance invocation returns at once and leaves the busy state, the
\* keypairs, the cleartexts and every other invocation as they were
FailsClosed(i) ==
    /\ decryptCalls' = [decryptCalls EXCEPT ![i] = DecryptDone]
    /\ keypairs' = keypairs
    /\ isDecrypting' = isDecrypting
    /\ decryptedBalances' = decryptedBalances

\* C13 as stated: a decryptBalance invocation made while the stored handle of
\* its token is missing or the zero handle returns at once with the message
\* 'Encrypted balance not available yet.', having generated no keypair, asked
\* for no signature, called no service, set no busy state and changed no
\* cleartext.
C13_NotAvailable ==
    [][\A i \in 1..MaxDecrypts, t \in Token, ready \in BOOLEAN :
         (DecryptStart(i, t, ready) /\ NoBalanceYet(t))
         => (FailsClosed(i) /\ statusMessage' = MsgNotAvailable)]_vars

\* C13: a decryptBalance invocation made while the stored handle of its token
\* is missing or the zero handle returns at once, having generated no
\* keypair, asked for no signature, called no service, set no busy state and
\* changed no cleartext, and an invocation that has returned does nothing
\* more; its message is 'Encrypted balance not available yet.' when the
\* account, the addresses and the encryption instance are there, and the
\* 'Connect wallet ...' message of the first guard when one of them is not.
C13_ZeroHandleFailsClosed ==
    /\ [][\A i \in 1..MaxDecrypts, t \in Token, ready \in BOOLEAN :
            (DecryptStart(i, t, ready) /\ NoBalanceYet(t))
            => /\ FailsClosed(i)
               /\ statusMessage' = IF ready THEN MsgNotAvailable ELSE MsgConnectDecrypt]_vars
    /\ [][\A i \in 1..MaxDecrypts :
            decryptCalls[i].pc = "done" => decryptCalls'[i] = decryptCalls[i]]_vars

\* the zero handle of the balance never written has been read and a decrypt
\* of it has returned with the message
C13_Witness ==
    /\ encryptedBalances["wUSDT"] = ZERO_HANDLE
    /\ encryptedBalances["wETH"] # ZERO_HANDLE
    /\ statusMessage = MsgNotAvailable
    /\ decryptCalls[1].pc = "done"
    /\ keypairs = 0
    /\ isDecrypting = Null
    /\ decryptedBalances = [t \in Token |-> NoClear]

\* the decryptBalance invocations for a token that have asked for the
\* signature or called the service and have not returned
InFlight(token) ==
    {i \in 1..MaxDecrypts : /\ decryptCalls[i].token = token
                            /\ decryptCalls[i].pc \in {"signature", "service"}}

\* C14: at any time at most one decryptBalance invocation per token of the
\* connected account is at the signature or the service step.
C14_SingleFlight == \A t \in Token : Cardinality(InFlight(t)) <= 1

\* C15: a swap whose input is tampered, or bound to another contract or
\* another account than the engine and the caller, reverts with no transfer
\* in, no transfer out, no balance changed and no record; and the input that
\* executeSwap sends is always intact, bound to the engine's address and to
\* the connected account, which is the caller of the transaction.
C15_InputBinding ==
    /\ (IsSwap /\ ~InputBound)
       => /\ ~last.ok
          /\ last.transferredIn = 0
          /\ last.transferredOut = 0
          /\ bal = last.pre
          /\ last.events = <<>>
    /\ swapCall.pc \in {"submitting", "waiting"}
       => /\ swapCall.input.intact
          /\ swapCall.input.contract = EngineAddr
          /\ swapCall.input.user = address
          /\ swapCall.input.value = U64(swapCall.amount)

C15_Witness ==
    /\ IsSwap
    /\ ~last.ok
    /\ last.input.contract = "wETH"
    /\ last.pre["wETH"][last.caller] > 0
    /\ GrantedAtCall("wETH", last.caller, EngineAddr)
    /\ swapCall.pc = "waiting"
    /\ swapCall.input = EncryptedInput(U64(1), EngineAddr, address, TRUE)

\* C17: no step of a decryptBalance invocation, whichever way it goes, and
\* no step of executeSwap other than the mining of the transaction it sent,
\* changes a balance, a grant or the supply of either asset, or runs a
\* transaction.
C17_ClientFrame ==
    [][(\/ decryptCalls' # decryptCalls
        \/ (swapCall' # swapCall /\ swapCall.pc # "waiting"))
       => /\ bal' = bal
          /\ operators' = operators
          /\ supply' = supply
          /\ calls' = calls
          /\ last' = last]_vars

\* a decrypt has succeeded and the swap has failed at the sending of its
\* transaction
C17_Witness ==
    /\ decryptCalls[1].pc = "done"
    /\ decryptedBalances["wETH"] = 2
    /\ swapCall.pc = "done"
    /\ statusMessage = "transaction not sent"
    /\ failure = "client"
    /\ calls = 0
    /\ bal = FundedClient

\* what the client shows for a transaction rejected on chain
OnChainTexts == {RevertText(e) : e \in Thrown("transaction reverted")}

\* C20: the message shown for a failure in the client (encryption, sending
\* of the transaction, signature, decryption service) is never a message the
\* client shows for a transaction rejected on chain.
C20_FailureDistinct == failure = "client" => statusMessage \notin OnChainTexts

\* C21: the amount out of a successful swap is the rate conversion of the
\* amount asked for in the input, whatever the transfer in has moved: the
\* caller is credited what the target ledger moves out of the engine's
\* balance when asked for forward(amountIn) (resp. reverse(amountIn)), also
\* when the transfer in was clamped.
C21_OutFromRequested ==
    (IsSwap /\ last.ok)
    => /\ last.amountOut = IF last.op = "swapWethForWusdt"
                           THEN forward(last.input.value)
                           ELSE reverse(last.input.value)
       /\ bal[TargetAsset][last.caller] - last.pre[TargetAsset][last.caller]
            = Transferred(last.amountOut, last.pre[TargetAsset][EngineAddr])

\* the transfer in was clamped and the caller is credited more than the
\* rate conversion of what was debited
C21_Witness ==
    /\ last.op = "swapWethForWusdt"
    /\ last.ok
    /\ Shortfall
    /\ last.input.value = U64(3)
    /\ last.transferredIn < 3
    /\ bal["wUSDT"][last.caller] - last.pre["wUSDT"][last.caller]
         > last.transferredIn * 3100

\* C22: the value a successful swap returns is the amount the target ledger
\* moved to the caller: it is the increase of the caller's target balance and
\* the decrease of the engine's; when the engine holds less than the amount
\* out, it is the clamped amount and not the amount out, and the transfer in
\* has taken effect all the same.
C22_ReturnsTransferred ==
    (IsSwap /\ last.ok)
    => /\ last.transferredOut
            = bal[TargetAsset][last.caller] - last.pre[TargetAsset][last.caller]
       /\ last.transferredOut
            = last.pre[TargetAsset][EngineAddr] - bal[TargetAsset][EngineAddr]
       /\ (IsSmall(last.amountOut)
           /\ last.pre[TargetAsset][EngineAddr] < ToNat(last.amountOut))
          => /\ last.transferredOut <= last.pre[TargetAsset][EngineAddr]
             /\ last.transferredOut # ToNat(last.amountOut)
             /\ bal[SourceAsset][last.caller]
                  = last.pre[SourceAsset][last.caller] - last.transferredIn
             /\ ~Shortfall => last.transferredIn = ToNat(last.input.value)

C22_Witness ==
    /\ last.op = "swapWusdtForWeth"
    /\ last.ok
    /\ last.input.value = U64(6200)
    /\ last.transferredIn = 6200
    /\ last.amountOut = U64(2)
    /\ last.pre["wETH"][EngineAddr] = 1
    /\ last.transferredOut < 2

\* the accounts whose balance of a token differs from before the last call
Changed(token) == {a \in Account : bal[token][a] # last.pre[token][a]}

\* C23: setOperator changes no balance; a swap by a caller changes only the
\* caller's and the engine's balances; a mint changes only the recipient's
\* balance and a transfer only the sender's and the recipient's, on the one
\* ledger called; and a mint, a transfer or a swap changes no grant.
C23_Frame ==
    /\ last.op = "setOperator" => bal = last.pre
    /\ IsSwap => \A t \in Token : Changed(t) \subseteq {last.caller, EngineAddr}
    /\ last.op = "mint"
       => /\ Changed(last.tokenIn) \subseteq {last.to}
          /\ \A t \in Token \ {last.tokenIn} : Changed(t) = {}
    /\ last.op \in {"confidentialTransfer", "confidentialTransferFrom"}
       => /\ Changed(last.tokenIn) \subseteq {last.from, last.to}
          /\ \A t \in Token \ {last.tokenIn} : Changed(t) = {}
    /\ (IsSwap \/ last.op \in {"mint", "confidentialTransfer", "confidentialTransferFrom"})
       => operators = last.grants

\* a swap has moved both assets while a third account holds a balance
C23_Witness ==
    /\ IsSwap
    /\ last.ok
    /\ last.transferredIn > 0
    /\ last.transferredOut > 0
    /\ last.pre["wETH"]["bob"] > 0
    /\ bal["wETH"]["bob"] = last.pre["wETH"]["bob"]
    /\ operators = last.grants

\* the invocations that hold a keypair: they await the signature or the service
Keyed == {i \in 1..MaxDecrypts : decryptCalls[i].pc \in {"signature", "service"}}

\* C24: an invocation holds a keypair exactly while it awaits the signature
\* or the service; the keypair was generated by that invocation (it is newer
\* than every keypair generated before), no two invocations hold the same
\* one, and it is submitted to the service once, with the one handle the
\* invocation read, after which the invocation only returns.
C24_KeypairPerRequest ==
    /\ [](/\ \A i \in 1..MaxDecrypts :
               /\ i \in Keyed <=> decryptCalls[i].keypair # 0
               /\ i \in Keyed
                  => /\ decryptCalls[i].keypair \in 1..keypairs
                     /\ decryptCalls[i].handle \notin {NoHandle, ZERO_HANDLE}
          /\ \A i, j \in Keyed : i # j => decryptCalls[i].keypair # decryptCalls[j].keypair)
    /\ [][\A i \in 1..MaxDecrypts :
            /\ (i \notin Keyed /\ decryptCalls'[i].pc = "signature")
               => /\ decryptCalls'[i].keypair = keypairs'
                  /\ keypairs' = keypairs + 1
            /\ (decryptCalls[i].pc = "signature" /\ decryptCalls'[i].pc = "service")
               => /\ decryptCalls'[i].keypair = decryptCalls[i].keypair
                  /\ decryptCalls'[i].handle = decryptCalls[i].handle
            /\ decryptCalls[i].pc = "service"
               => \/ decryptCalls'[i] = decryptCalls[i]
                  \/ decryptCalls'[i].pc = "done"
            /\ decryptCalls[i].pc = "done" => decryptCalls'[i].pc = "done"]_vars

\* two requests are at the service, each with its own keypair
C24_Witness ==
    /\ decryptCalls[1].pc = "service"
    /\ decryptCalls[2].pc = "service"
    /\ decryptCalls[1].keypair = 1
    /\ decryptCalls[2].keypair = 2
    /\ decryptCalls[1].handle # decryptCalls[2].handle

\* C25: an invocation calls the service only from the step that awaited the
\* caller's signature, which it enters only from the signer step and with
\* its keypair generated; when the signature is refused the invocation ends
\* there, without a call of the service and with the decrypted balances
\* unchanged.
C25_HandshakeOrder ==
    [][\A i \in 1..MaxDecrypts :
         /\ (decryptCalls'[i].pc = "service" /\ decryptCalls[i].pc # "service")
            => decryptCalls[i].pc = "signature"
         /\ (decryptCalls'[i].pc = "signature" /\ decryptCalls[i].pc # "signature")
            => /\ decryptCalls[i].pc = "signer"
               /\ decryptCalls'[i].keypair # 0
         /\ \A s \in Settled("signature rejected") :
              (DecryptSigned(i, s) /\ ~s.ok)
              => /\ decryptCalls'[i].pc = "done"
                 /\ decryptedBalances' = decryptedBalances]_vars

\* the caller has refused the signature of the only invocation so far
C25_Witness ==
    /\ statusMessage = "signature rejected"
    /\ keypairs = 1
    /\ decryptCalls[1].pc = "done"
    /\ decryptCalls[2].pc = "idle"
    /\ isDecrypting = Null
    /\ decryptedBalances = [t \in Token |-> NoClear]

\* C26: a cleartext held for a token is the cleartext of the handle held for
\* that token.
C26_CleartextOfCurrentHandle ==
    \A t \in Token :
        decryptedBalances[t] # NoClear
        => /\ encryptedBalances[t] \notin {NoHandle, ZERO_HANDLE}
           /\ decryptedBalances[t] = encryptedBalances[t].clear

\* C27: a token is reported busy exactly when a decryptBalance invocation
\* for it has set the busy state and has not returned.
C27_BusyIffInFlight ==
    \A t \in Token : (isDecrypting = t) <=> (InFlight(t) # {})

\* C28: an invocation that has set the busy state returns, and the step in
\* which it returns clears the busy state, whether the cleartext was
\* received, the signature refused, the service failed or its result lacked
\* the handle; a busy state that is set is eventually cleared, and it is
\* never set while no invocation is between setting it and returning.
C28_BusyCleared ==
    /\ \A i \in 1..MaxDecrypts : (i \in Keyed) ~> (decryptCalls[i].pc = "done")
    /\ (isDecrypting # Null) ~> (isDecrypting = Null)
    /\ [](Keyed = {} => isDecrypting = Null)
    /\ [][\A i \in Keyed : decryptCalls'[i].pc = "done" => isDecrypting' = Null]_vars

\* the result of the service lacked the handle and the busy state is clear
C28_Witness ==
    /\ statusMessage = "Cannot convert undefined to a BigInt"
    /\ decryptCalls[1].pc = "done"
    /\ keypairs = 1
    /\ Keyed = {}
    /\ isDecrypting = Null

\* C29: for the text of every 64-bit amount, the preview of each direction
\* is the text of the amount out the contract computes for that amount.
C29_PreviewIsAmountOut ==
    aphase = "done"
    => /\ aout.previewFwd = formatUnits(BigOf(aout.fwd))
       /\ aout.previewRev = formatUnits(BigOf(aout.rev))

\* C30: the expiry of every grant setOperatorForToken submits is later than
\* the time at which it was computed.
C30_ExpiryAfterNow ==
    (last.op = "setOperator" /\ last.ok) => ToNat(last.amountIn) > last.time

====
